---- MODULE Spec2Model ----
(***************************************************************************)
(* Model of the browser-use console front-end:                             *)
(*   main.py                  the menu-driven Session Loop                 *)
(*   situation_summarizer.py  SituationSummarizer.summarize                *)
(*                                                                         *)
(* Strings typed at the console are sequences of one-character strings.    *)
(* The external collaborators (environment, stdin, Browser, Agent, page    *)
(* state, model client) are nondeterministic: each call either returns     *)
(* one of its possible results or raises an Exception.  Interpreter-level  *)
(* BaseExceptions (KeyboardInterrupt, SystemExit, task cancellation) are   *)
(* not part of the model.                                                  *)
(***************************************************************************)
EXTENDS Integers, Sequences, FiniteSets, TLC

\* ------------------------------------------------------------------ bounds
\* Number of menu prompts answered in one run of main().
MaxIter == 3
\* Longest line typed at a prompt.
MaxLen == 2

\* ------------------------------------------------------- console strings
\* Characters typed at the three prompts.
MenuChars == {" ", "1", "2", "q"}
TaskChars == {" ", "t"}
QueryChars == {" ", "d"}

Lines(chars) == UNION {[1..n -> chars] : n \in 0..MaxLen}

\* The literal of main.py:81 and situation_summarizer.py:46, written with
\* the one-character word "d".
DefaultQuestion == <<"d">>

\* The literal of situation_summarizer.py:43.
Placeholder == "ui_list_unavailable"

\* str.strip(): drop leading and trailing whitespace.
RECURSIVE LStrip(_)
LStrip(s) == IF s # <<>> /\ Head(s) = " " THEN LStrip(Tail(s)) ELSE s

RECURSIVE RStrip(_)
RStrip(s) == IF s # <<>> /\ s[Len(s)] = " " THEN RStrip(SubSeq(s, 1, Len(s) - 1)) ELSE s

Strip(s) == RStrip(LStrip(s))

\* ------------------------------------------------------------ main.py
\* main.py:13  `if not api_key`
ApiKeyMissing_IsNoneOnly(k) == k = "None"

ApiKeyMissing(k) == k \in {"None", ""}

\* main.py:54,58,77  the if / elif chain on the stripped choice
Dispatch_ElseQuits(c) ==
    IF c = <<"1">> THEN "task_prompt"
    ELSE IF c = <<"2">> THEN "query_prompt"
    ELSE "finally"

Dispatch(c) ==
    IF c = <<"q">> THEN "finally"
    ELSE IF c = <<"1">> THEN "task_prompt"
    ELSE IF c = <<"2">> THEN "query_prompt"
    ELSE "menu"

\* main.py:61  `if not task_content: continue`
TaskIsEmpty_NeverSkips(t) == FALSE

TaskIsEmpty(t) == t = <<>>

\* main.py:80-81  default question for an empty query
DefaultIfEmpty(q) == IF q = <<>> THEN DefaultQuestion ELSE q

\* main.py:95-97  the two lines printed when summarization fails
SummaryErrorOutput_NoHint(e) == << <<"summary_error", e>> >>

SummaryErrorOutput(e) == << <<"summary_error", e>>, <<"hint_run_task_first", "">> >>

\* main.py:104-109  which termination operation the finally block calls
TerminationOp_PrefersStop(hasKill, hasStop) ==
    IF hasStop THEN "stop" ELSE IF hasKill THEN "kill" ELSE "none"

TerminationOp(hasKill, hasStop) ==
    IF hasKill THEN "kill" ELSE IF hasStop THEN "stop" ELSE "none"

\* main.py:45-50  the menu block
MenuOutput == << <<"menu", "">> >>

\* --------------------------------------------- situation_summarizer.py
\* What the collaborators do during one call of summarize():
\*   fetch      get_browser_state_summary returns or raises
\*   dom        state.dom_state: None, an object without llm_representation,
\*              an object whose llm_representation() returns, or raises
\*   screenshot state.screenshot: None, "" or base64 data
\*   invoke     llm.ainvoke raises, or returns a response with a str
\*              completion, a non-str completion, or no completion attribute
\* A step that is not reached because an earlier one raised is "unreached".
SummarizeEnvs ==
    { [fetch |-> "raises", dom |-> "unreached", screenshot |-> "unreached", invoke |-> "unreached"] }
    \cup
    { [fetch |-> "ok", dom |-> "raises", screenshot |-> s, invoke |-> "unreached"] :
        s \in {"None", "", "b64"} }
    \cup
    { [fetch |-> "ok", dom |-> d, screenshot |-> s, invoke |-> i] :
        d \in {"None", "no_llm_representation", "ok"},
        s \in {"None", "", "b64"},
        i \in {"raises", "completion_str", "completion_obj", "no_completion"} }

NoEnv == [fetch |-> "unreached", dom |-> "unreached", screenshot |-> "unreached", invoke |-> "unreached"]

\* situation_summarizer.py:40-43  text of the UI element list, or the error
\* raised by llm_representation()
UiElementsText_NoHasattr(dom) ==
    IF dom # "None"
    THEN IF dom = "ok" THEN [raised |-> "none", text |-> "ui_text"]
         ELSE [raised |-> "ReprError", text |-> ""]
    ELSE [raised |-> "none", text |-> Placeholder]

UiElementsText(dom) ==
    IF dom # "None" /\ dom # "no_llm_representation"
    THEN IF dom = "raises" THEN [raised |-> "ReprError", text |-> ""]
         ELSE [raised |-> "none", text |-> "ui_text"]
    ELSE [raised |-> "none", text |-> Placeholder]

\* situation_summarizer.py:45-47
QueryInstruction_AnyNonEmpty(q) ==
    IF q # <<>> THEN <<"answer_query">> \o q ELSE <<>>

QueryInstruction(q) ==
    IF q # <<>> /\ q # DefaultQuestion THEN <<"answer_query">> \o q ELSE <<>>

\* situation_summarizer.py:49-59
SystemPrompt(q) == <<"persona">> \o QueryInstruction(q) \o <<"sections">>

\* situation_summarizer.py:74  truthiness of state.screenshot
HasScreenshot(s) == s \notin {"None", ""}

\* situation_summarizer.py:64-82
TextPart(text) == [type |-> "text", data |-> text]
ImagePart(s) == [type |-> "image_url", data |-> s]

ContentList_ImageFirst(text, s) ==
    IF HasScreenshot(s) THEN <<ImagePart(s), TextPart(text)>> ELSE <<TextPart(text)>>

ContentList(text, s) ==
    IF HasScreenshot(s) THEN <<TextPart(text), ImagePart(s)>> ELSE <<TextPart(text)>>

\* situation_summarizer.py:84  the warning of the else branch
ScreenshotLog(s) == IF HasScreenshot(s) THEN <<>> ELSE <<"warning_no_screenshot">>

\* situation_summarizer.py:87-90
Messages(q, text, s) ==
    << [role |-> "system", prompt |-> SystemPrompt(q), content |-> <<>>],
       [role |-> "user", prompt |-> <<>>, content |-> ContentList(text, s)] >>

\* situation_summarizer.py:98-100
Content(invoke) ==
    CASE invoke = "completion_str" -> "completion"
      [] invoke = "completion_obj" -> "str(completion)"
      [] OTHER -> "str(response)"

\* situation_summarizer.py:31-112  one call of summarize(): the exception it
\* raises ("none" when it returns), the raw_response it returns, the request
\* it sent to the model (<<>> when none was sent) and the lines it logged.
ErrorLog == "error_traceback"

SummarizeCall(q, env) ==
    LET ui == UiElementsText(env.dom) IN
    IF env.fetch = "raises"
    THEN [raised |-> "StateError", raw |-> "", sent |-> <<>>,
          log |-> <<"info_1">> \o <<ErrorLog>>]
    ELSE IF ui.raised # "none"
    THEN [raised |-> ui.raised, raw |-> "", sent |-> <<>>,
          log |-> <<"info_1", "info_2">> \o <<ErrorLog>>]
    ELSE IF env.invoke = "raises"
    THEN [raised |-> "LLMError", raw |-> "", sent |-> Messages(q, ui.text, env.screenshot),
          log |-> <<"info_1", "info_2", "info_3">> \o ScreenshotLog(env.screenshot)
                  \o <<"info_4">> \o <<ErrorLog>>]
    ELSE [raised |-> "none", raw |-> Content(env.invoke),
          sent |-> Messages(q, ui.text, env.screenshot),
          log |-> <<"info_1", "info_2", "info_3">> \o ScreenshotLog(env.screenshot)
                  \o <<"info_4", "info_done">>]

\* ---------------------------------------------------------------- state
\* The locals `choice` and `task_content` of main() are assigned and last
\* used inside one step, so they are LET-bound in MenuChoice and TaskInput.
\* Standard output and the logger are append-only streams; the state keeps
\* what the last step appended to each.
VARIABLES
    pc,            \* position of main(): start, menu, task_prompt, agent_run,
                   \* query_prompt, summarizing, finally, done, crashed
    step,          \* the operation that produced this state
    api_key,       \* os.getenv('GOOGLE_API_KEY') after load_dotenv()
    hasKill,       \* hasattr(browser, 'kill')
    hasStop,       \* hasattr(browser, 'stop')
    llm,           \* the model client has been constructed
    browser,       \* the browser handle
    line,          \* the last line returned by input()
    user_query,    \* main.py local `user_query`
    env,           \* what the collaborators did if the last step called summarize()
    messages,      \* the request the last step passed to llm.ainvoke (<<>> if none)
    printed,       \* lines the last step printed to standard output
    logged,        \* lines the last step wrote to the summarizer's logger
    err,           \* exception raised in the last step ("none" if none)
    exc,           \* exception propagating out of the while loop ("none" if none)
    reads,         \* number of completed input() calls
    agents,        \* number of Agent objects constructed
    agentRuns,     \* number of agent.run() calls
    summarizeCalls,\* number of summarize_page_state_from_session calls
    llmCalls,      \* number of llm.ainvoke calls
    killCalls,     \* number of browser.kill() calls
    stopCalls,     \* number of browser.stop() calls
    iter           \* number of times the menu was displayed

vars == <<pc, step, api_key, hasKill, hasStop, llm, browser, line, user_query, env,
          messages, printed, logged, err, exc, reads, agents, agentRuns,
          summarizeCalls, llmCalls, killCalls, stopCalls, iter>>

NoBrowser == [constructed |-> FALSE, window_size |-> "unset", window_position |-> "unset"]

\* main.py:24-40  the handle after construction and the two overrides
NewBrowser == [constructed |-> TRUE, window_size |-> "None", window_position |-> "None"]

Init ==
    /\ pc = "start"
    /\ step = "init"
    /\ api_key \in {"None", "", "key"}
    /\ hasKill \in BOOLEAN
    /\ hasStop \in BOOLEAN
    /\ llm = FALSE
    /\ browser = NoBrowser
    /\ line = <<>>
    /\ user_query = <<>>
    /\ env = NoEnv
    /\ messages = <<>>
    /\ printed = <<>>
    /\ logged = <<>>
    /\ err = "none"
    /\ exc = "none"
    /\ reads = 0
    /\ agents = 0
    /\ agentRuns = 0
    /\ summarizeCalls = 0
    /\ llmCalls = 0
    /\ killCalls = 0
    /\ stopCalls = 0
    /\ iter = 0

\* main.py:8-40  credential check, banner, model client, browser handle.
\* The handle is built from a BrowserProfile, so the hasattr test of line 37
\* holds and both overrides are applied.  A constructor that raises ends
\* main() before the try statement is entered.
Startup ==
    /\ pc = "start"
    /\ step' = "Startup"
    /\ \E ctor \in {"ok", "llm_raises", "browser_raises"} :
        IF ApiKeyMissing(api_key)
        THEN /\ ctor = "ok"
             /\ pc' = "crashed"
             /\ err' = "ValueError"
             /\ exc' = "ValueError"
             /\ printed' = <<>>
             /\ UNCHANGED <<llm, browser>>
        ELSE /\ printed' = << <<"banner", "">> >>
             /\ llm' = (ctor # "llm_raises")
             /\ browser' = IF ctor = "ok" THEN NewBrowser ELSE NoBrowser
             /\ IF ctor = "ok"
                THEN /\ pc' = "menu"
                     /\ UNCHANGED <<err, exc>>
                ELSE /\ pc' = "crashed"
                     /\ err' = "StartupError"
                     /\ exc' = "StartupError"
    /\ logged' = <<>>
    /\ env' = NoEnv
    /\ messages' = <<>>
    /\ UNCHANGED <<api_key, hasKill, hasStop, line, user_query, reads, agents,
                   agentRuns, summarizeCalls, llmCalls, killCalls, stopCalls,
                   iter>>

\* main.py:45-58,77  print the menu, read the choice, dispatch on it
MenuChoice ==
    /\ pc = "menu"
    /\ iter < MaxIter
    /\ step' = "MenuChoice"
    /\ \E raw \in Lines(MenuChars) :
        LET choice == Strip(raw) IN
        /\ line' = raw
        /\ pc' = Dispatch(choice)
        /\ printed' = MenuOutput \o
               (IF Dispatch(choice) = "finally" THEN << <<"bye", "">> >> ELSE <<>>)
    /\ logged' = <<>>
    /\ reads' = reads + 1
    /\ iter' = iter + 1
    /\ err' = "none"
    /\ env' = NoEnv
    /\ messages' = <<>>
    /\ UNCHANGED <<api_key, hasKill, hasStop, llm, browser, user_query, exc,
                   agents, agentRuns, summarizeCalls, llmCalls, killCalls,
                   stopCalls>>

\* main.py:45-52  input() raises EOFError at the menu prompt
MenuEOF ==
    /\ pc = "menu"
    /\ iter < MaxIter
    /\ step' = "MenuEOF"
    /\ printed' = MenuOutput
    /\ logged' = <<>>
    /\ UNCHANGED line
    /\ pc' = "finally"
    /\ err' = "EOFError"
    /\ exc' = "EOFError"
    /\ iter' = iter + 1
    /\ env' = NoEnv
    /\ messages' = <<>>
    /\ UNCHANGED <<api_key, hasKill, hasStop, llm, browser, user_query, reads,
                   agents, agentRuns, summarizeCalls, llmCalls, killCalls,
                   stopCalls>>

\* main.py:60-71  read the task, skip when empty, construct the Agent
TaskInput ==
    /\ pc = "task_prompt"
    /\ step' = "TaskInput"
    /\ \E raw \in Lines(TaskChars), ctor \in {"ok", "raises"} :
        LET task_content == raw IN
        /\ line' = raw
        /\ IF TaskIsEmpty(task_content)
           THEN /\ ctor = "ok"
                /\ pc' = "menu"
                /\ printed' = <<>>
                /\ err' = "none"
                /\ UNCHANGED <<agents, exc>>
           ELSE IF ctor = "raises"
           THEN /\ pc' = "finally"
                /\ printed' = <<>>
                /\ err' = "AgentInitError"
                /\ exc' = "AgentInitError"
                /\ UNCHANGED agents
           ELSE /\ pc' = "agent_run"
                /\ agents' = agents + 1
                /\ printed' = << <<"agent_start", "">> >>
                /\ err' = "none"
                /\ UNCHANGED exc
    /\ logged' = <<>>
    /\ reads' = reads + 1
    /\ env' = NoEnv
    /\ messages' = <<>>
    /\ UNCHANGED <<api_key, hasKill, hasStop, llm, browser, user_query,
                   agentRuns, summarizeCalls, llmCalls, killCalls, stopCalls,
                   iter>>

\* main.py:60  input() raises EOFError at the task prompt
TaskEOF ==
    /\ pc = "task_prompt"
    /\ step' = "TaskEOF"
    /\ pc' = "finally"
    /\ printed' = <<>>
    /\ logged' = <<>>
    /\ UNCHANGED line
    /\ err' = "EOFError"
    /\ exc' = "EOFError"
    /\ env' = NoEnv
    /\ messages' = <<>>
    /\ UNCHANGED <<api_key, hasKill, hasStop, llm, browser, user_query, reads,
                   agents, agentRuns, summarizeCalls, llmCalls, killCalls,
                   stopCalls, iter>>

\* main.py:72-75  await agent.run() inside try / except Exception
AgentRun ==
    /\ pc = "agent_run"
    /\ step' = "AgentRun"
    /\ agentRuns' = agentRuns + 1
    /\ \E run \in {"ok", "raises"} :
        IF run = "raises"
        THEN /\ err' = "AgentRunError"
             /\ printed' = << <<"agent_error", "AgentRunError">> >>
        ELSE /\ err' = "none"
             /\ printed' = <<>>
    /\ logged' = <<>>
    /\ UNCHANGED line
    /\ pc' = "menu"
    /\ env' = NoEnv
    /\ messages' = <<>>
    /\ UNCHANGED <<api_key, hasKill, hasStop, llm, browser, user_query, exc,
                   reads, agents, summarizeCalls, llmCalls, killCalls,
                   stopCalls, iter>>

\* main.py:79-83  read the query, substitute the default, announce
QueryInput ==
    /\ pc = "query_prompt"
    /\ step' = "QueryInput"
    /\ \E raw \in Lines(QueryChars) :
        /\ line' = raw
        /\ user_query' = DefaultIfEmpty(Strip(raw))
    /\ printed' = << <<"summarizing", "">> >>
    /\ logged' = <<>>
    /\ pc' = "summarizing"
    /\ reads' = reads + 1
    /\ err' = "none"
    /\ env' = NoEnv
    /\ messages' = <<>>
    /\ UNCHANGED <<api_key, hasKill, hasStop, llm, browser, exc, agents,
                   agentRuns, summarizeCalls, llmCalls, killCalls, stopCalls,
                   iter>>

\* main.py:79  input() raises EOFError at the query prompt
QueryEOF ==
    /\ pc = "query_prompt"
    /\ step' = "QueryEOF"
    /\ pc' = "finally"
    /\ printed' = <<>>
    /\ logged' = <<>>
    /\ UNCHANGED line
    /\ err' = "EOFError"
    /\ exc' = "EOFError"
    /\ env' = NoEnv
    /\ messages' = <<>>
    /\ UNCHANGED <<api_key, hasKill, hasStop, llm, browser, user_query, reads,
                   agents, agentRuns, summarizeCalls, llmCalls, killCalls,
                   stopCalls, iter>>

\* main.py:84-97 and situation_summarizer.py:114-120
\* await summarize_page_state_from_session(...) inside try / except Exception
Summarize ==
    /\ pc = "summarizing"
    /\ step' = "Summarize"
    /\ \E e \in SummarizeEnvs :
        LET r == SummarizeCall(user_query, e) IN
        /\ env' = e
        /\ logged' = r.log
        /\ err' = r.raised
        /\ messages' = r.sent
        /\ llmCalls' = llmCalls + (IF r.sent # <<>> THEN 1 ELSE 0)
        /\ IF r.raised = "none"
           THEN printed' = << <<"summary_header", "">>, <<"summary", r.raw>> >>
           ELSE printed' = SummaryErrorOutput(r.raised)
    /\ summarizeCalls' = summarizeCalls + 1
    /\ UNCHANGED line
    /\ pc' = "menu"
    /\ UNCHANGED <<api_key, hasKill, hasStop, llm, browser, user_query, exc,
                   reads, agents, agentRuns, killCalls, stopCalls, iter>>

\* main.py:99-113  the finally block
Shutdown ==
    /\ pc = "finally"
    /\ step' = "Shutdown"
    /\ \E term \in {"ok", "raises"} :
        LET op == TerminationOp(hasKill, hasStop) IN
        /\ killCalls' = killCalls + (IF op = "kill" THEN 1 ELSE 0)
        /\ stopCalls' = stopCalls + (IF op = "stop" THEN 1 ELSE 0)
        /\ IF op = "none"
           THEN /\ term = "ok"
                /\ err' = "none"
                /\ printed' = << <<"closing", "">>, <<"no_termination_method", "">>,
                                 <<"exited_normally", "">> >>
           ELSE IF term = "raises"
           THEN /\ err' = "TerminationError"
                /\ printed' = << <<"closing", "">>,
                                 <<"shutdown_error", "TerminationError">> >>
           ELSE /\ err' = "none"
                /\ printed' = << <<"closing", "">>, <<"exited_normally", "">> >>
    /\ logged' = <<>>
    /\ UNCHANGED line
    /\ pc' = IF exc = "none" THEN "done" ELSE "crashed"
    /\ env' = NoEnv
    /\ messages' = <<>>
    /\ UNCHANGED <<api_key, hasKill, hasStop, llm, browser, user_query, exc,
                   reads, agents, agentRuns, summarizeCalls, llmCalls, iter>>

Next ==
    \/ Startup
    \/ MenuChoice
    \/ MenuEOF
    \/ TaskInput
    \/ TaskEOF
    \/ AgentRun
    \/ QueryInput
    \/ QueryEOF
    \/ Summarize
    \/ Shutdown

Spec == Init /\ [][Next]_vars

\* ---------------------------------------------------------------- claims
\* C1: when llm.ainvoke raises during a summarize request, summarize() logs
\* the error and re-raises that same error, main() prints the error message
\* followed by the run-a-task-first hint and is back at the menu, and neither
\* kill nor stop has been called on the browser handle.
C1_InvokeFailureReturnsToMenu ==
    (step = "Summarize" /\ env.invoke = "raises") =>
        /\ err = "LLMError"
        /\ logged # <<>>
        /\ logged[Len(logged)] = "error_traceback"
        /\ printed = << <<"summary_error", "LLMError">>, <<"hint_run_task_first", "">> >>
        /\ pc = "menu"
        /\ exc = "none"
        /\ killCalls = 0
        /\ stopCalls = 0

C1_Witness ==
    /\ step = "Summarize"
    /\ env.invoke = "raises"
    /\ llmCalls > 0
    /\ pc = "menu"

\* C2: every failure raised while constructing the task agent or running it
\* is caught, a console message is printed, and the loop is back at the menu
\* without reaching shutdown.
C2_TaskFailureCaught ==
    err \in {"AgentInitError", "AgentRunError"} =>
        /\ pc = "menu"
        /\ exc = "none"
        /\ printed = << <<"agent_error", err>> >>
        /\ killCalls = 0
        /\ stopCalls = 0

\* C3 as stated: after the quit selection the termination operation has been
\* called exactly once in total, kill when the handle has it and otherwise
\* stop, and a failure of that call is printed and does not leave main().
C3_ExactlyOneTermination ==
    /\ pc \notin {"done", "crashed"} => killCalls + stopCalls = 0
    /\ pc = "done" =>
        /\ killCalls + stopCalls = 1
        /\ hasKill => killCalls = 1
        /\ ~hasKill => stopCalls = 1
        /\ exc = "none"
        /\ err = "TerminationError" =>
               printed = << <<"closing", "">>, <<"shutdown_error", "TerminationError">> >>

\* C3 amended: after the quit selection the termination operation has been
\* called exactly once when the handle has kill or stop (kill when it has
\* kill, otherwise stop, never both), and not at all when it has neither, in
\* which case the not-found message is printed; it is never called before
\* the finally block, and a failure of the call is printed and does not
\* leave main().
C3_AtMostOneTermination ==
    /\ pc \notin {"done", "crashed"} => killCalls + stopCalls = 0
    /\ pc = "done" =>
        /\ hasKill => killCalls = 1 /\ stopCalls = 0
        /\ (~hasKill /\ hasStop) => killCalls = 0 /\ stopCalls = 1
        /\ (~hasKill /\ ~hasStop) =>
               /\ killCalls = 0
               /\ stopCalls = 0
               /\ printed[2] = <<"no_termination_method", "">>
        /\ exc = "none"
        /\ err = "TerminationError" =>
               printed = << <<"closing", "">>, <<"shutdown_error", "TerminationError">> >>

C3_Witness ==
    /\ pc = "done"
    /\ reads > 1
    /\ ~hasKill
    /\ hasStop
    /\ stopCalls = 1
    /\ err = "TerminationError"

\* C4: with GOOGLE_API_KEY absent or empty, main() fails before any loop
\* iteration: the menu is never displayed, neither the model client nor the
\* browser handle is constructed, and the finally block never runs.
C4_MissingKeyFailsAtStartup ==
    (api_key \in {"None", ""} /\ pc # "start") =>
        /\ pc = "crashed"
        /\ step = "Startup"
        /\ exc = "ValueError"
        /\ iter = 0
        /\ reads = 0
        /\ printed = <<>>
        /\ ~llm
        /\ ~browser.constructed
        /\ killCalls = 0
        /\ stopCalls = 0

C4_Witness ==
    /\ api_key = ""
    /\ pc = "crashed"

\* C5: every request that reaches the model is one system message followed
\* by one user message; the user content is (text, image) when the page
\* state has a screenshot and (text) alone, with a warning logged, when the
\* screenshot is None or empty; the model is invoked in both cases.
C5_RequestShape ==
    step = "Summarize" =>
        /\ (env.fetch = "ok" /\ env.dom # "raises") => messages # <<>>
        /\ messages # <<>> =>
            /\ Len(messages) = 2
            /\ messages[1].role = "system"
            /\ messages[2].role = "user"
            /\ LET c == messages[2].content IN
               IF env.screenshot = "b64"
               THEN /\ Len(c) = 2
                    /\ c[1].type = "text"
                    /\ c[2].type = "image_url"
                    /\ \A i \in 1..Len(logged) : logged[i] # "warning_no_screenshot"
               ELSE /\ env.screenshot \in {"None", ""}
                    /\ Len(c) = 1
                    /\ c[1].type = "text"
                    /\ \E i \in 1..Len(logged) : logged[i] = "warning_no_screenshot"

C5_Witness ==
    /\ step = "Summarize"
    /\ env.screenshot = ""
    /\ llmCalls > 0
    /\ Len(messages[2].content) = 1

\* C6 as stated: when the UI element list cannot be rendered (dom_state
\* missing, llm_representation missing, or llm_representation() failing),
\* summarize() does not raise at that step, the text part carries the
\* placeholder and the request goes to the model.
C6_UnrenderableGivesPlaceholder ==
    (step = "Summarize" /\ env.fetch = "ok"
        /\ env.dom \in {"None", "no_llm_representation", "raises"}) =>
        /\ err \in {"none", "LLMError"}
        /\ messages # <<>>
        /\ messages[2].content[1].data = "ui_list_unavailable"

\* C6 amended: when dom_state is missing or has no llm_representation, the
\* text part carries the placeholder and the request goes to the model; when
\* llm_representation() itself fails, summarize() logs and re-raises that
\* error, no request reaches the model, and main() prints the error and the
\* hint and is back at the menu.
C6_UnavailableGivesPlaceholder ==
    /\ (step = "Summarize" /\ env.fetch = "ok"
           /\ env.dom \in {"None", "no_llm_representation"}) =>
        /\ err \in {"none", "LLMError"}
        /\ messages # <<>>
        /\ messages[2].content[1].type = "text"
        /\ messages[2].content[1].data = "ui_list_unavailable"
    /\ (step = "Summarize" /\ env.fetch = "ok" /\ env.dom = "raises") =>
        /\ err = "ReprError"
        /\ messages = <<>>
        /\ logged[Len(logged)] = "error_traceback"
        /\ printed = << <<"summary_error", "ReprError">>, <<"hint_run_task_first", "">> >>
        /\ pc = "menu"

C6_Witness ==
    /\ step = "Summarize"
    /\ env.dom = "no_llm_representation"
    /\ llmCalls > 0
    /\ messages[2].content[1].data = "ui_list_unavailable"

\* C7: a menu input whose stripped value is not 1, 2 or q takes the loop
\* back to the menu display and changes nothing else: no agent constructed,
\* no summarizer or model call, no further prompt read, browser not
\* terminated.
C7_OtherInputOnlyRedisplays ==
    [][(pc = "menu" /\ step' = "MenuChoice"
          /\ Strip(line') \notin {<<"1">>, <<"2">>, <<"q">>}) =>
        /\ pc' = "menu"
        /\ printed' = << <<"menu", "">> >>
        /\ reads' = reads + 1
        /\ logged' = <<>>
        /\ messages' = <<>>
        /\ err' = "none"
        /\ UNCHANGED <<llm, browser, user_query, exc, agents, agentRuns,
                       summarizeCalls, llmCalls, killCalls, stopCalls>>]_vars

C7_Witness ==
    /\ step = "MenuChoice"
    /\ line = <<"1", "2">>
    /\ pc = "menu"

\* C8: choice 1 followed by an empty task string constructs no agent, runs
\* nothing against the browser handle and returns to the menu.
C8_EmptyTaskIsNoOp ==
    [][(pc = "task_prompt" /\ step' = "TaskInput" /\ line' = <<>>) =>
        /\ pc' = "menu"
        /\ printed' = <<>>
        /\ err' = "none"
        /\ UNCHANGED <<llm, browser, exc, agents, agentRuns, summarizeCalls,
                       llmCalls, killCalls, stopCalls>>]_vars

C8_Witness ==
    /\ step = "TaskInput"
    /\ line = <<>>
    /\ pc = "menu"

\* C9: an empty or whitespace-only query passes exactly the default question
\* to the summarizer, and the answer-the-query instruction is in the system
\* prompt exactly when the typed query, stripped, is non-empty and differs
\* from the default question.
C9_DefaultQueryAndInstruction ==
    /\ (step = "QueryInput" /\ Strip(line) = <<>>) => user_query = DefaultQuestion
    /\ (step = "QueryInput" /\ Strip(line) # <<>>) => user_query = Strip(line)
    /\ (step = "Summarize" /\ messages # <<>>) =>
        LET p == messages[1].prompt
            typed == Strip(line)
        IN  (\E i \in 1..Len(p) : p[i] = "answer_query")
                <=> (typed # <<>> /\ typed # DefaultQuestion)

C9_Witness ==
    /\ step = "Summarize"
    /\ line = <<" ">>
    /\ user_query = DefaultQuestion
    /\ messages # <<>>
    /\ messages[1].prompt = <<"persona", "sections">>

\* C10: running a task and summarizing always return to the menu, and the
\* finally block is entered only by the quit selection: never as a
\* consequence of a task, of a summarization or of reading input.
C10_ShutdownOnlyByQuit ==
    /\ step \in {"TaskInput", "AgentRun", "Summarize"} => pc \in {"menu", "agent_run"}
    /\ step \in {"AgentRun", "Summarize"} => pc = "menu"
    /\ pc = "finally" => (step = "MenuChoice" /\ Strip(line) = <<"q">> /\ exc = "none")

====
